---- MODULE Spec2Model ----
(***************************************************************************)
(* s3-remotely-sync: the sync pass of S3Sync (core.py), the flock-based    *)
(* process lock (lock.py) and the dry-run statistics (get_sync_stats).     *)
(*                                                                         *)
(* A python dict is a function whose DOMAIN is its key set.  Strings that  *)
(* the code inspects character by character (bucket, prefix) are sequences *)
(* of one-character strings.                                               *)
(***************************************************************************)
EXTENDS Integers, Sequences, FiniteSets, TLC

\* ----------------------------------------------------------------- bounds
MaxMtime == 2
MaxPasses == 2
MaxLen == 2
MaxName == 3
MaxRuns == 4

Procs == {"p1", "p2"}
\* the processes started from the command line: main() calls get_sync_stats()
\* before sync(); the others call sync() alone
CliProcs == {"p1"}
Paths == {"x", "y"}
\* the modification times of the files and entries that exist at the start
Mtimes == 1..MaxMtime
\* the times a write can stamp a file with: any of those, or a later one
Times == 1..(MaxMtime + 1)
Dicts == UNION {[S -> Mtimes] : S \in SUBSET Paths}
TimeDicts == UNION {[S -> Times] : S \in SUBSET Paths}
OldDicts == UNION {[S -> {1}] : S \in SUBSET Paths}
NewDicts == UNION {[S -> {MaxMtime}] : S \in SUBSET Paths}
Alphabet == {"a", "_", "/"}
Strs(n) == UNION {[1..k -> Alphabet] : k \in 1..n}
Buckets == {<<"b">>, <<"b", "_", "a">>}
\* prefixes name a directory: they start with a letter
Prefixes == {s \in Strs(MaxLen) : s[1] = "a"}
\* file names: a letter, the extension separator, a letter in both cases;
\* "." and ".." are never the name of a file
NameChars == {"n", ".", "t", "T"}
Names == UNION {[1..k -> NameChars] : k \in 1..MaxName} \ {<<".">>, <<".", ".">>}
\* the extensions a configuration may list
ExtChoices == {<<".", "t">>, <<".", "T">>, <<".", "n">>}

VARIABLES
    bucket,       \* [Procs -> string]   S3Sync.bucket of each process
    prefix,       \* [Procs -> string]   the prefix argument of each process
    local,        \* [Procs -> dict]     the local directory: rel_path -> mtime
    store,        \* [metadata key -> dict] the persisted metadata objects
    blobs,        \* set of <<bucket, key>>: the objects of the blob store
    lockHeld,     \* set of processes whose open lock file holds the flock
    handle,       \* [Procs -> BOOLEAN]  S3SyncLock.lock_handle is not None
    pc,           \* [Procs -> position in sync()]
    metadata,     \* [Procs -> dict]     the local variable metadata of sync()
    local_files,  \* [Procs -> dict]     the local variable local_files
    todo,         \* [Procs -> SUBSET Paths] what the running loop has left
    exc,          \* [Procs -> BOOLEAN]  an exception is propagating
    result,       \* [Procs -> how the last sync() call ended]
    passes,       \* number of sync() calls started so far
    loaded,       \* [Procs -> dict]     history: metadata as loaded
    decided,      \* [Procs -> [Paths -> Seq]] history: branch taken per path
    calls,        \* [Procs -> [Paths -> Seq]] history: progress_callback calls
    stats,        \* [Procs -> record]   what get_sync_stats() last saw/returned
    name,         \* [Paths -> string]   the file name (basename) of each path
    extensions,   \* [Procs -> set of strings] S3Sync.extensions
    blacklist,    \* [Procs -> BOOLEAN]  S3Sync.blacklist
    limit         \* how many sync() calls the run under study makes at most

vars == <<bucket, prefix, local, store, blobs, lockHeld, handle, pc, metadata,
          local_files, todo, exc, result, passes, loaded, decided, calls, stats,
          name, extensions, blacklist, limit>>

\* ------------------------------------------------------------ pure helpers
RECURSIVE RStrip(_)
\* str.rstrip('/')
RStrip(s) ==
    IF s = <<>> THEN s
    ELSE IF s[Len(s)] = "/" THEN RStrip(SubSeq(s, 1, Len(s) - 1)) ELSE s

\* str.replace('/', '_')
Replace(s) == [i \in 1..Len(s) |-> IF s[i] = "/" THEN "_" ELSE s[i]]

\* f"{lock_dir}/{bucket}_{prefix.replace('/', '_')}.lock"
LockFile(b, pre) == <<"~/.s3sync", "/">> \o b \o <<"_">> \o Replace(pre) \o <<".lock">>

\* self.prefix
SelfPrefix(pre) == RStrip(pre)

\* f"{self.prefix}/{rel_path}"
S3Key(pre, r) == SelfPrefix(pre) \o <<"/", r>>

\* the sync target of a process: the bucket and the prefix its keys live under
Target(p) == <<bucket[p], SelfPrefix(prefix[p])>>

\* S3SyncMetadata(s3_client, bucket, prefix): one object per (bucket, prefix)
MetaKey(p) == <<bucket[p], prefix[p]>>

Token(p) == LockFile(bucket[p], prefix[p])

Blob(p, r) == <<bucket[p], S3Key(prefix[p], r)>>

NoSeq == [r \in Paths |-> <<>>]
EmptyDict == [r \in {} |-> 0]
NoStats == [taken |-> FALSE]

\* faulty variant of LocalDecision: any difference of the mtimes is an upload, as
\* get_sync_stats counts it
LocalDecisionByInequality(lf, md, r) ==
    IF r \in DOMAIN md
    THEN IF lf[r] # md[r] THEN "Upload" ELSE "Skip"
    ELSE "Upload"

\* the branch sync() takes for a path of the local enumeration
LocalDecision(lf, md, r) ==
    IF r \in DOMAIN md
    THEN IF lf[r] > md[r] THEN "Upload"
         ELSE IF lf[r] < md[r] THEN "Download"
         ELSE "Skip"
    ELSE "Upload"

\* faulty variant of RemoteOnly: the second loop runs over every metadata key
RemoteOnlyEveryKey(lf, md) == DOMAIN md

\* the paths the second loop of sync() downloads
RemoteOnly(lf, md) == {r \in DOMAIN md : r \notin DOMAIN lf}

\* faulty variant of Put: the mapping is rebuilt with the one entry
PutAlone(d, r, v) == [k \in {r} |-> v]

\* dict assignment d[r] = v
Put(d, r, v) == [k \in DOMAIN d \cup {r} |-> IF k = r THEN v ELSE d[k]]

\* get_sync_stats(): (total_files, to_upload, to_download)
GetSyncStatsOf(lf, md) ==
    LET up == Cardinality({r \in DOMAIN lf :
                  IF r \in DOMAIN md THEN lf[r] # md[r] ELSE TRUE})
        down == Cardinality({r \in DOMAIN md : r \notin DOMAIN lf})
    IN [total |-> Cardinality(DOMAIN lf) + down, up |-> up, down |-> down]

\* where sync() stands once the first loop has `rest` left to visit: the
\* second loop iterates the metadata dict as the first loop left it
AfterLocal(lf, md, rest) ==
    IF rest # {} THEN [pc |-> "loop1", todo |-> rest]
    ELSE IF RemoteOnly(lf, md) # {}
         THEN [pc |-> "loop2", todo |-> RemoteOnly(lf, md)]
         ELSE [pc |-> "save", todo |-> {}]

AfterRemote(rest) ==
    IF rest # {} THEN [pc |-> "loop2", todo |-> rest] ELSE [pc |-> "save", todo |-> {}]

\* -------------------------------------------------------------- utils.py
\* str.lower() of a one-character string
LowerChar(ch) == IF ch = "T" THEN "t" ELSE ch
Lower(s) == [i \in 1..Len(s) |-> LowerChar(s[i])]

\* os.path.splitext(filename)[1] of a file name without separator: from the
\* last dot on, unless only dots come before it (leading dots are skipped)
RECURSIVE SkipLeadingDots(_, _, _)
SkipLeadingDots(s, i, dot) ==
    IF i >= dot THEN <<>>
    ELSE IF s[i] # "." THEN SubSeq(s, dot, Len(s))
    ELSE SkipLeadingDots(s, i + 1, dot)

RECURSIVE RFind(_, _)
RFind(s, i) == IF i = 0 \/ s[i] = "." THEN i ELSE RFind(s, i - 1)

Splitext(s) ==
    LET dotIndex == RFind(s, Len(s))
    IN  IF dotIndex > 0 THEN SkipLeadingDots(s, 1, dotIndex) ELSE <<>>

\* faulty variant of ShouldSyncFile: the extension is compared as it is spelt
ShouldSyncFileAsSpelt(filename, exts, bl) ==
    IF exts = {} THEN TRUE
    ELSE LET ext == Splitext(filename)
         IN  IF bl THEN ext \notin exts ELSE ext \in exts

\* should_sync_file(filename, extensions, blacklist)
ShouldSyncFile(filename, exts, bl) ==
    IF exts = {} THEN TRUE
    ELSE LET ext == Lower(Splitext(filename))
         IN  IF bl THEN ext \notin exts ELSE ext \in exts

\* get_local_files(local_path, extensions, blacklist) over the directory dir:
\* rel_path -> mtime of every file that should_sync_file admits
GetLocalFiles(dir, exts, bl) ==
    [r \in {q \in DOMAIN dir : ShouldSyncFile(name[q], exts, bl)} |-> dir[r]]

\* ------------------------------------------------------------ initial states
TypeOK ==
    /\ local \in [Procs -> TimeDicts]
    /\ lockHeld \subseteq Procs
    /\ handle \in [Procs -> BOOLEAN]
    /\ pc \in [Procs -> {"idle", "scanned", "load", "enum", "loop1", "loop2",
                         "save", "finally"}]
    /\ metadata \in [Procs -> TimeDicts]
    /\ local_files \in [Procs -> TimeDicts]
    /\ todo \in [Procs -> SUBSET Paths]
    /\ exc \in [Procs -> BOOLEAN]
    /\ result \in [Procs -> {"none", "ok", "raised", "busy"}]
    /\ limit \in {MaxPasses, MaxRuns}
    /\ passes \in 0..limit
    /\ name \in [Paths -> Names]
    /\ extensions \in [Procs -> SUBSET Names]
    /\ blacklist \in [Procs -> BOOLEAN]

\* everything a freshly constructed S3Sync and its S3SyncLock start with
InitProcs ==
    /\ lockHeld = {}
    /\ handle = [p \in Procs |-> FALSE]
    /\ pc = [p \in Procs |-> "idle"]
    /\ metadata = [p \in Procs |-> EmptyDict]
    /\ local_files = [p \in Procs |-> EmptyDict]
    /\ todo = [p \in Procs |-> {}]
    /\ exc = [p \in Procs |-> FALSE]
    /\ result = [p \in Procs |-> "none"]
    /\ passes = 0
    /\ loaded = [p \in Procs |-> EmptyDict]
    /\ decided = [p \in Procs |-> NoSeq]
    /\ calls = [p \in Procs |-> NoSeq]
    /\ stats = [p \in Procs |-> NoStats]

\* S3Sync constructed without extensions: the set is empty
NoFilter ==
    /\ name = [r \in Paths |-> <<"n">>]
    /\ extensions = [p \in Procs |-> {}]
    /\ blacklist = [p \in Procs |-> FALSE]

\* every metadata entry was written after an upload, so its object exists
InitRemote(md) ==
    /\ store = [k \in {MetaKey(p) : p \in Procs} |-> md]
    /\ blobs = {Blob(p, r) : p \in Procs, r \in DOMAIN md}

\* two processes on one target and any metadata; p1 starts from any local
\* directory, p2 from an empty one
Init ==
    /\ bucket = [p \in Procs |-> <<"b">>]
    /\ prefix = [p \in Procs |-> <<"a">>]
    /\ \E d1 \in Dicts : local = [p \in Procs |-> IF p = "p1" THEN d1 ELSE EmptyDict]
    /\ \E md \in Dicts : InitRemote(md)
    /\ InitProcs
    /\ limit = MaxPasses
    /\ NoFilter

\* ------------------------------------------------------------------ lock.py
\* faulty variant of FlockGranted: the lock is taken without LOCK_NB's refusal
FlockAlwaysGranted(p) == TRUE

\* fcntl.flock(handle, LOCK_EX | LOCK_NB) succeeds iff no other open file
\* description of the same lock file holds the lock
FlockGranted(p) == \A q \in lockHeld : Token(q) # Token(p)

\* main() after get_sync_stats(): sync() is called if something is pending
Pending(p) == stats[p].out.up + stats[p].out.down > 0

\* entering sync(): one more call; acquire() opens the lock file
Enter(p) ==
    /\ pc[p] \in {"idle", "scanned"}
    /\ pc[p] = "scanned" => Pending(p)
    /\ passes < limit
    /\ passes' = passes + 1
    /\ handle' = [handle EXCEPT ![p] = TRUE]
    /\ UNCHANGED <<exc, loaded, decided, calls, metadata, local_files, todo>>

\* sync(): self.lock.acquire() returns True
AcquireOk(p) ==
    /\ Enter(p)
    /\ FlockGranted(p)
    /\ lockHeld' = lockHeld \cup {p}
    /\ pc' = [pc EXCEPT ![p] = "load"]
    /\ UNCHANGED <<bucket, prefix, name, extensions, blacklist, limit, local, store, blobs, result, stats>>

\* faulty variant of AcquireFail: the early return is missing
AcquireFailContinues(p) ==
    /\ Enter(p)
    /\ ~FlockGranted(p)
    /\ pc' = [pc EXCEPT ![p] = "load"]
    /\ result' = [result EXCEPT ![p] = "busy"]
    /\ stats' = [stats EXCEPT ![p] = NoStats]
    /\ UNCHANGED <<bucket, prefix, name, extensions, blacklist, limit, local, store, blobs, lockHeld>>

\* sync(): self.lock.acquire() returns False; "Another sync process is
\* running", return
AcquireFail(p) ==
    /\ Enter(p)
    /\ ~FlockGranted(p)
    /\ pc' = [pc EXCEPT ![p] = "idle"]
    /\ result' = [result EXCEPT ![p] = "busy"]
    /\ stats' = [stats EXCEPT ![p] = NoStats]
    /\ UNCHANGED <<bucket, prefix, name, extensions, blacklist, limit, local, store, blobs, lockHeld>>

\* what the end of a sync() call does besides releasing the lock
Leave(p) ==
    /\ pc[p] = "finally"
    /\ pc' = [pc EXCEPT ![p] = "idle"]
    /\ result' = [result EXCEPT ![p] = IF exc[p] THEN "raised" ELSE "ok"]
    /\ exc' = [exc EXCEPT ![p] = FALSE]
    /\ metadata' = [metadata EXCEPT ![p] = EmptyDict]
    /\ local_files' = [local_files EXCEPT ![p] = EmptyDict]
    /\ todo' = [todo EXCEPT ![p] = {}]
    /\ loaded' = [loaded EXCEPT ![p] = EmptyDict]
    /\ decided' = [decided EXCEPT ![p] = NoSeq]
    /\ calls' = [calls EXCEPT ![p] = NoSeq]
    /\ stats' = [stats EXCEPT ![p] = NoStats]
    /\ UNCHANGED <<bucket, prefix, name, extensions, blacklist, limit, local, store, blobs, passes>>

\* faulty variant of Release: release() follows the try block instead of sitting in
\* a finally block, so an exception skips it
ReleaseOnReturnOnly(p) ==
    /\ Leave(p)
    /\ IF handle[p] /\ ~exc[p]
       THEN /\ lockHeld' = lockHeld \ {p}
            /\ handle' = [handle EXCEPT ![p] = FALSE]
       ELSE UNCHANGED <<lockHeld, handle>>

\* the finally block: self.lock.release(), then return or re-raise; the
\* locals of the call are gone, and main() ends with it
Release(p) ==
    /\ Leave(p)
    /\ IF handle[p]
       THEN /\ lockHeld' = lockHeld \ {p}
            /\ handle' = [handle EXCEPT ![p] = FALSE]
       ELSE UNCHANGED <<lockHeld, handle>>

\* faulty variant of ReleaseCall: release() frees the lock file itself, whoever
\* holds it
ReleaseCallFreesFile(p) ==
    /\ pc[p] = "idle"
    /\ IF handle[p]
       THEN /\ lockHeld' = {q \in lockHeld : Token(q) # Token(p)}
            /\ handle' = [handle EXCEPT ![p] = FALSE]
       ELSE UNCHANGED <<lockHeld, handle>>
    /\ UNCHANGED <<bucket, prefix, name, extensions, blacklist, limit, local, store, blobs, pc, metadata, local_files,
                   todo, exc, result, passes, loaded, decided, calls, stats>>

\* release() called on its own, outside a pass: after acquire() returned
\* false (the handle is open, the flock was refused), after an earlier
\* release() or with no acquire() at all (lock_handle is None: nothing happens)
ReleaseCall(p) ==
    /\ pc[p] = "idle"
    /\ IF handle[p]
       THEN /\ lockHeld' = lockHeld \ {p}
            /\ handle' = [handle EXCEPT ![p] = FALSE]
       ELSE UNCHANGED <<lockHeld, handle>>
    /\ UNCHANGED <<bucket, prefix, name, extensions, blacklist, limit, local, store, blobs, pc, metadata, local_files,
                   todo, exc, result, passes, loaded, decided, calls, stats>>

\* ------------------------------------------------------------------ core.py
\* what a step of process p inside the try block never touches
Frame(p) == UNCHANGED <<bucket, prefix, name, extensions, blacklist, limit, lockHeld, handle, result, passes, stats>>

\* the step moves p on as `pos` says
GoTo(p, pos) ==
    /\ pc' = [pc EXCEPT ![p] = pos.pc]
    /\ todo' = [todo EXCEPT ![p] = pos.todo]

\* an exception leaves the try block for the finally block
Raise(p) ==
    /\ exc' = [exc EXCEPT ![p] = TRUE]
    /\ pc' = [pc EXCEPT ![p] = "finally"]
    /\ UNCHANGED todo

Note(h, p, r, what) == [h EXCEPT ![p][r] = Append(@, what)]

\* metadata = self.metadata.load(): the persisted mapping of this target
Load(p) ==
    /\ pc[p] = "load"
    /\ metadata' = [metadata EXCEPT ![p] = store[MetaKey(p)]]
    /\ loaded' = [loaded EXCEPT ![p] = store[MetaKey(p)]]
    /\ pc' = [pc EXCEPT ![p] = "enum"]
    /\ UNCHANGED <<local, store, blobs, local_files, todo, exc, decided, calls>>
    /\ Frame(p)

\* self.metadata.load() raises
LoadFail(p) ==
    /\ pc[p] = "load"
    /\ Raise(p)
    /\ UNCHANGED <<local, store, blobs, metadata, local_files, loaded, decided, calls>>
    /\ Frame(p)

\* local_files = get_local_files(...): the snapshot of the local directory
Enumerate(p) ==
    /\ pc[p] = "enum"
    /\ LET lf == GetLocalFiles(local[p], extensions[p], blacklist[p])
       IN  /\ local_files' = [local_files EXCEPT ![p] = lf]
           /\ GoTo(p, AfterLocal(lf, metadata[p], DOMAIN lf))
    /\ UNCHANGED <<local, store, blobs, metadata, exc, loaded, decided, calls>>
    /\ Frame(p)

\* get_local_files raises (a file vanished before os.path.getmtime)
EnumFail(p) ==
    /\ pc[p] = "enum"
    /\ Raise(p)
    /\ UNCHANGED <<local, store, blobs, metadata, local_files, loaded, decided, calls>>
    /\ Frame(p)

\* _upload_file succeeds: the object is put, the observer hears 'upload'
UploadDone(p, r) ==
    /\ blobs' = blobs \cup {Blob(p, r)}
    /\ calls' = Note(calls, p, r, "upload")
    /\ UNCHANGED <<local, exc>>

\* faulty variant of UploadFailed: the except block does not re-raise, so sync()
\* goes on to record the entry and to the next path
UploadFailedSwallowed(p, r) ==
    /\ calls' = Note(calls, p, r, "fail")
    /\ metadata' = [metadata EXCEPT ![p] = Put(@, r, local_files[p][r])]
    /\ GoTo(p, AfterLocal(local_files[p], Put(metadata[p], r, local_files[p][r]),
                          todo[p] \ {r}))
    /\ UNCHANGED <<local, blobs, exc>>

\* _upload_file fails: the observer hears 'fail', the exception is re-raised
UploadFailed(p, r) ==
    /\ calls' = Note(calls, p, r, "fail")
    /\ Raise(p)
    /\ UNCHANGED <<local, blobs, metadata>>

\* faulty variant of DownloadDone: the download also records the new file's
\* mtime in the entry
DownloadDoneRecorded(p, r) ==
    /\ Blob(p, r) \in blobs
    /\ \E now \in Times :
          /\ local' = [local EXCEPT ![p] = Put(@, r, now)]
          /\ metadata' = [metadata EXCEPT ![p] = Put(@, r, now)]
    /\ calls' = Note(calls, p, r, "download")
    /\ UNCHANGED <<blobs, exc>>

\* _download_file succeeds: the object is written to the local file, whose
\* modification time becomes the time of writing; the observer hears 'download'
DownloadDone(p, r) ==
    /\ Blob(p, r) \in blobs
    /\ \E now \in Times : local' = [local EXCEPT ![p] = Put(@, r, now)]
    /\ calls' = Note(calls, p, r, "download")
    /\ UNCHANGED <<blobs, exc, metadata>>

\* faulty variant of DownloadFailed: the exception is caught in sync(), which
\* goes straight to saving the metadata
DownloadFailedThenSave(p, r) ==
    /\ calls' = Note(calls, p, r, "fail")
    /\ GoTo(p, [pc |-> "save", todo |-> {}])
    /\ UNCHANGED <<local, blobs, metadata, exc>>

\* _download_file fails: the observer hears 'fail', the exception is re-raised
DownloadFailed(p, r) ==
    /\ calls' = Note(calls, p, r, "fail")
    /\ Raise(p)
    /\ UNCHANGED <<local, blobs, metadata>>

\* first loop, local newer than the entry or no entry: upload, then record
\* the local mtime of the snapshot in the entry
LocalUpload(p) ==
    /\ pc[p] = "loop1"
    /\ \E r \in todo[p] :
        /\ LocalDecision(local_files[p], metadata[p], r) = "Upload"
        /\ decided' = Note(decided, p, r, "Upload")
        /\ \/ /\ UploadDone(p, r)
              /\ metadata' = [metadata EXCEPT ![p] = Put(@, r, local_files[p][r])]
              /\ GoTo(p, AfterLocal(local_files[p], Put(metadata[p], r, local_files[p][r]),
                                    todo[p] \ {r}))
           \/ UploadFailed(p, r)
    /\ UNCHANGED <<store, local_files, loaded>>
    /\ Frame(p)

\* first loop, local older than the entry: download, entry untouched
LocalDownload(p) ==
    /\ pc[p] = "loop1"
    /\ \E r \in todo[p] :
        /\ LocalDecision(local_files[p], metadata[p], r) = "Download"
        /\ decided' = Note(decided, p, r, "Download")
        /\ \/ /\ DownloadDone(p, r)
              /\ GoTo(p, AfterLocal(local_files[p], metadata[p], todo[p] \ {r}))
           \/ DownloadFailed(p, r)
    /\ UNCHANGED <<store, local_files, loaded>>
    /\ Frame(p)

\* first loop, equal mtimes: neither branch, nothing happens
LocalSkip(p) ==
    /\ pc[p] = "loop1"
    /\ \E r \in todo[p] :
        /\ LocalDecision(local_files[p], metadata[p], r) = "Skip"
        /\ decided' = Note(decided, p, r, "Skip")
        /\ GoTo(p, AfterLocal(local_files[p], metadata[p], todo[p] \ {r}))
    /\ UNCHANGED <<local, store, blobs, metadata, local_files, exc, loaded, calls>>
    /\ Frame(p)

\* second loop: every metadata key that is not in local_files is downloaded
RemoteDownload(p) ==
    /\ pc[p] = "loop2"
    /\ \E r \in todo[p] :
        /\ decided' = Note(decided, p, r, "Download")
        /\ \/ /\ DownloadDone(p, r)
              /\ GoTo(p, AfterRemote(todo[p] \ {r}))
           \/ DownloadFailed(p, r)
    /\ UNCHANGED <<store, local_files, loaded>>
    /\ Frame(p)

\* self.metadata.save(metadata): one put that overwrites the object
Save(p) ==
    /\ pc[p] = "save"
    /\ store' = [store EXCEPT ![MetaKey(p)] = metadata[p]]
    /\ pc' = [pc EXCEPT ![p] = "finally"]
    /\ UNCHANGED <<local, blobs, metadata, local_files, todo, exc, loaded, decided, calls>>
    /\ Frame(p)

\* self.metadata.save raises
SaveFail(p) ==
    /\ pc[p] = "save"
    /\ Raise(p)
    /\ UNCHANGED <<local, store, blobs, metadata, local_files, loaded, decided, calls>>
    /\ Frame(p)

\* get_sync_stats(), as main() calls it before sync()
GetSyncStats(p) ==
    /\ p \in CliProcs
    /\ pc[p] = "idle"
    /\ passes < limit
    /\ LET lf == GetLocalFiles(local[p], extensions[p], blacklist[p])
       IN  stats' = [stats EXCEPT ![p] =
                        [taken |-> TRUE, meta |-> store[MetaKey(p)], files |-> lf,
                         out |-> GetSyncStatsOf(lf, store[MetaKey(p)])]]
    /\ pc' = [pc EXCEPT ![p] = "scanned"]
    /\ UNCHANGED <<bucket, prefix, name, extensions, blacklist, limit, local, store, blobs, lockHeld, handle, metadata,
                   local_files, todo, exc, result, passes, loaded, decided, calls>>

\* main(): to_upload + to_download is 0, "No files to sync", sync() is not
\* called
NoFilesToSync(p) ==
    /\ pc[p] = "scanned"
    /\ ~Pending(p)
    /\ pc' = [pc EXCEPT ![p] = "idle"]
    /\ stats' = [stats EXCEPT ![p] = NoStats]
    /\ UNCHANGED <<bucket, prefix, name, extensions, blacklist, limit, local, store, blobs,
                   lockHeld, handle, metadata, local_files, todo, exc, result, passes,
                   loaded, decided, calls>>

Step(p) ==
    \/ GetSyncStats(p)
    \/ NoFilesToSync(p)
    \/ AcquireOk(p)
    \/ AcquireFail(p)
    \/ Load(p)
    \/ LoadFail(p)
    \/ Enumerate(p)
    \/ EnumFail(p)
    \/ LocalUpload(p)
    \/ LocalDownload(p)
    \/ LocalSkip(p)
    \/ RemoteDownload(p)
    \/ Save(p)
    \/ SaveFail(p)
    \/ Release(p)
    \/ ReleaseCall(p)

Next == \E p \in Procs : Step(p)

Spec == Init /\ [][Next]_vars

\* a process runs until its call returns or raises: every call it makes
\* (flock with LOCK_NB, the S3 requests, the file system) comes back
\* the runs over the targets: each process has any bucket and any prefix;
\* p1 has two old files, one of them with a newer metadata entry
TokInit ==
    /\ bucket \in [Procs -> Buckets]
    /\ prefix \in [Procs -> Prefixes]
    /\ local = [p \in Procs |-> IF p = "p1" THEN [r \in Paths |-> 1] ELSE EmptyDict]
    /\ InitRemote([r \in {"x"} |-> MaxMtime])
    /\ InitProcs
    /\ limit = MaxPasses
    /\ NoFilter

TokSpec == TokInit /\ [][Next]_vars

\* the runs over the extension filter: any name for the file x beside the
\* dot file y, any configured extension list in both modes for p1, any local
\* directory of p1
FilterInit ==
    /\ bucket = [p \in Procs |-> <<"b">>]
    /\ prefix = [p \in Procs |-> <<"a">>]
    /\ \E d1 \in Dicts : local = [p \in Procs |-> IF p = "p1" THEN d1 ELSE EmptyDict]
    /\ InitRemote(EmptyDict)
    /\ InitProcs
    /\ limit = MaxPasses
    /\ \E n \in Names : name = [r \in Paths |-> IF r = "x" THEN n ELSE <<".", "t">>]
    /\ \E cfg \in SUBSET ExtChoices :
          extensions = [p \in Procs |-> IF p = "p1" THEN {Lower(e) : e \in cfg} ELSE {}]
    /\ \E bl \in BOOLEAN : blacklist = [p \in Procs |-> IF p = "p1" THEN bl ELSE FALSE]

\* the calls that enumerate the local directory: get_sync_stats(), and sync()
\* up to its call of get_local_files
FilterNext ==
    \E p \in CliProcs : GetSyncStats(p) \/ AcquireOk(p) \/ Load(p) \/ Enumerate(p)

FilterSpec == FilterInit /\ [][FilterNext]_vars

\* the runs from the first sync on: no metadata object and no object in the
\* blob store yet; each process starts from any local directory
FreshInit ==
    /\ bucket = [p \in Procs |-> <<"b">>]
    /\ prefix = [p \in Procs |-> <<"a">>]
    /\ local \in [Procs -> Dicts]
    /\ InitRemote(EmptyDict)
    /\ InitProcs
    /\ limit = MaxPasses
    /\ NoFilter

FreshSpec == FreshInit /\ [][Next]_vars

\* the runs of a single client: p1 alone, from any local directory and any
\* metadata, calls sync() up to MaxRuns times
ConvInit ==
    /\ bucket = [p \in Procs |-> <<"b">>]
    /\ prefix = [p \in Procs |-> <<"a">>]
    /\ \E d1 \in Dicts : local = [p \in Procs |-> IF p = "p1" THEN d1 ELSE EmptyDict]
    /\ \E md \in Dicts : InitRemote(md)
    /\ InitProcs
    /\ NoFilter
    /\ limit = MaxRuns

\* the step raises nothing, and a download it makes stamps the file with a
\* time later than every known mtime the pass has on record
Calm(p) ==
    /\ ~exc'[p]
    /\ \A r \in Paths :
          (/\ Len(calls'[p][r]) > Len(calls[p][r])
           /\ calls'[p][r][Len(calls'[p][r])] = "download") =>
              \A k \in DOMAIN metadata[p] : local'[p][r] > metadata[p][k]

\* sync() after sync() of the one client, nothing failing
ConvNext ==
    \E p \in CliProcs :
        \/ AcquireOk(p) /\ Calm(p)
        \/ Load(p) /\ Calm(p)
        \/ Enumerate(p) /\ Calm(p)
        \/ LocalUpload(p) /\ Calm(p)
        \/ LocalDownload(p) /\ Calm(p)
        \/ LocalSkip(p) /\ Calm(p)
        \/ RemoteDownload(p) /\ Calm(p)
        \/ Save(p) /\ Calm(p)
        \/ Release(p) /\ Calm(p)

ConvSpec == ConvInit /\ [][ConvNext]_vars

Fairness == \A p \in Procs : WF_vars(Step(p))

\* the liveness runs: p1 starts from any set of files of the oldest mtime,
\* p2 from an empty directory, and the metadata holds any set of entries of
\* the newest mtime
FairInit ==
    /\ bucket = [p \in Procs |-> <<"b">>]
    /\ prefix = [p \in Procs |-> <<"a">>]
    /\ \E d1 \in OldDicts : local = [p \in Procs |-> IF p = "p1" THEN d1 ELSE EmptyDict]
    /\ \E md \in NewDicts : InitRemote(md)
    /\ InitProcs
    /\ limit = MaxPasses
    /\ NoFilter

FairSpec == FairInit /\ [][Next]_vars /\ Fairness

\* ------------------------------------------------------------------ claims
InTry == {"load", "enum", "loop1", "loop2", "save"}
Other(p) == Procs \ {p}

\* C1 (part): in every reachable state at most one process holds the lock
\* of a token
MutualExclusion ==
    \A p \in lockHeld : \A q \in lockHeld : p # q => Token(p) # Token(q)

\* C1 (part): a call of acquire() returns at once, true when no process
\* holds the token's lock and false, leaving the holder in place, when one does
AcquireDecides ==
    passes' = passes + 1 =>
        \/ \E p \in Procs \ lockHeld :
              /\ lockHeld' = lockHeld \cup {p}
              /\ \A q \in lockHeld : Token(q) # Token(p)
              /\ pc'[p] = "load"
        \/ /\ lockHeld' = lockHeld
           /\ \E p \in Procs : \E q \in lockHeld \ {p} :
                 Token(q) = Token(p) /\ result'[p] = "busy" /\ pc'[p] = "idle"

\* C1: lock mutual exclusion: of two processes calling acquire() on the token
\* of one (bucket, prefix) while it is held, exactly one has the lock and the
\* other's call returned false without blocking; at most one process holds the
\* lock of a token in every reachable state
C1_LockMutualExclusion == [](MutualExclusion) /\ [][AcquireDecides]_vars

\* C1 witness: both processes have called acquire(); one is in its pass with
\* the lock, the other got false
C1_Witness ==
    \E p \in Procs : \E q \in Other(p) :
        /\ p \in lockHeld /\ pc[p] = "load"
        /\ q \notin lockHeld /\ result[q] = "busy" /\ pc[q] = "idle"
        /\ passes = 2

\* C2 (part): a process that is not inside sync() does not hold the lock,
\* whether its last call returned or raised
ReleasedOutside == \A p \in Procs : pc[p] \in {"idle", "scanned"} => p \notin lockHeld

\* C2: the lock is released on every exit path of sync(): once acquire() has
\* returned true the lock is eventually not held by that process, whether the
\* pass completes or an exception from load, enumeration, a transfer or save
\* ends it, and it is not held once the call is over
C2_LockAlwaysReleased ==
    /\ \A p \in Procs : (p \in lockHeld) ~> (p \notin lockHeld)
    /\ [](ReleasedOutside)

\* C2 witness: a pass of p was ended by an exception, and the other process
\* has acquired the lock of the same token after it
C2_Witness ==
    \E p \in Procs : \E q \in Other(p) :
        /\ result[p] = "raised" /\ pc[p] = "idle" /\ p \notin lockHeld
        /\ Token(q) = Token(p) /\ q \in lockHeld /\ pc[q] = "load"

\* C3 (part): only a process that holds the lock is inside the pass
PassNeedsLock == \A p \in Procs : pc[p] \in InTry \cup {"finally"} => p \in lockHeld

\* C3 (part): the step in which acquire() returns false changes no local
\* directory, no metadata object, no blob, calls no observer, and the caller
\* does not enter the pass
FailedAcquireIsInert ==
    (passes' = passes + 1 /\ lockHeld' = lockHeld) =>
        /\ store' = store /\ blobs' = blobs /\ local' = local
        /\ calls' = calls /\ decided' = decided /\ metadata' = metadata
        /\ \A p \in Procs : pc'[p] \in InTry \cup {"finally"} => pc'[p] = pc[p]

\* C3: when acquire() returns false sync() aborts the pass without any local
\* or remote mutation: no upload, no download, no metadata load or save and no
\* observer callback; metadata object and blob store are unchanged
C3_NoLockNoMutation == [](PassNeedsLock) /\ [][FailedAcquireIsInert]_vars

\* C3 witness: acquire() of p returned false while the other process was
\* about to save its metadata
C3_Witness ==
    \E p \in Procs : \E q \in Other(p) :
        /\ result[p] = "busy" /\ pc[p] = "idle" /\ p \notin lockHeld
        /\ pc[q] = "save" /\ metadata[q] # store[MetaKey(q)]

\* the inputs of the running pass of p: the enumeration snapshot and the
\* metadata as loaded
Union(p) == DOMAIN local_files[p] \cup DOMAIN loaded[p]

\* the decision the claims give a path, from (local presence, local mtime,
\* metadata presence, known mtime)
Expected(lf, md, r) ==
    IF r \in DOMAIN lf /\ r \in DOMAIN md
    THEN IF lf[r] = md[r] THEN "Skip"
         ELSE IF lf[r] > md[r] THEN "Upload" ELSE "Download"
    ELSE IF r \in DOMAIN lf THEN "Upload"
    ELSE IF r \in DOMAIN md THEN "Download" ELSE "None"

\* the decision a pass that starts now takes for r once it reaches it
NextDecision(p, r) ==
    IF r \in DOMAIN local[p] THEN LocalDecision(local[p], store[MetaKey(p)], r)
    ELSE IF r \in RemoteOnly(local[p], store[MetaKey(p)]) THEN "Download" ELSE "None"

Failed(p) == {r \in Paths : \E i \in 1..Len(calls[p][r]) : calls[p][r][i] = "fail"}
Count(p, d) == Cardinality({r \in Paths : \E i \in 1..Len(decided[p][r]) : decided[p][r][i] = d})

\* C4: the decision taken for a path is the claimed function of the snapshot
\* and the loaded metadata: equal mtimes Skip, local newer Upload, local older
\* Download, local only Upload, metadata only Download
C4_DecisionFunction ==
    \A p \in Procs : \A r \in Paths :
        decided[p][r] # <<>> =>
            /\ Len(decided[p][r]) = 1
            /\ decided[p][r][1] = Expected(local_files[p], loaded[p], r)

\* C4 witness: a completed pass that downloaded a path whose local copy was
\* older than its entry and uploaded a path that had no entry
C4_Witness ==
    \E p \in Procs : \E r \in Paths : \E u \in Paths :
        /\ pc[p] = "finally" /\ ~exc[p]
        /\ r \in DOMAIN local_files[p] /\ r \in DOMAIN loaded[p]
        /\ local_files[p][r] < loaded[p][r] /\ decided[p][r] = <<"Download">>
        /\ u \in DOMAIN local_files[p] /\ u \notin DOMAIN loaded[p]
        /\ decided[p][u] = <<"Upload">>

\* C5: when a pass is over, every path of the union of the enumerated local
\* paths and the loaded metadata paths has received exactly one decision
C5_OneDecisionPerPath ==
    \A p \in Procs :
        (pc[p] = "finally" /\ (~exc[p] \/ Failed(p) # {})) =>
            \A r \in Paths : Len(decided[p][r]) = IF r \in Union(p) THEN 1 ELSE 0

\* C6: a second pass of a process, run right after its first pass completed
\* and with no other sync in between, decides Skip for every path
C6_SecondPassAllSkip ==
    \A p \in Procs :
        (result[p] = "ok" /\ passes = 2 /\ pc[p] \in InTry \cup {"finally"}) =>
            \A r \in Paths : decided[p][r] \in {<<>>, <<"Skip">>}

\* C7: the pending-upload and pending-download counts of get_sync_stats()
\* equal the numbers of Upload and Download decisions of a completed sync() on
\* the same local enumeration and metadata
C7_DryRunEquivalence ==
    \A p \in Procs :
        (/\ pc[p] = "finally" /\ ~exc[p] /\ stats[p].taken
         /\ stats[p].files = local_files[p] /\ stats[p].meta = loaded[p]) =>
            /\ stats[p].out.up = Count(p, "Upload")
            /\ stats[p].out.down = Count(p, "Download")

\* C8: a pass in which a transfer failed still runs to its end: every path of
\* the union is decided and the metadata is saved
C8_FailureDoesNotAbort ==
    \A p \in Procs :
        (pc[p] = "finally" /\ Failed(p) # {}) =>
            /\ ~exc[p]
            /\ \A r \in Union(p) : Len(decided[p][r]) = 1
            /\ store[MetaKey(p)] = metadata[p]

\* C9: when a pass is over in which the transfer of a path failed, the
\* persisted metadata entry of the path is as it was loaded (absent stays
\* absent, known mtime unchanged), and a pass that starts now takes the same
\* Upload or Download decision for the path
C9_FailedPathRetried ==
    \A p \in Procs : \A r \in Paths :
        (pc[p] = "finally" /\ r \in Failed(p)) =>
            /\ (r \in DOMAIN store[MetaKey(p)]) = (r \in DOMAIN loaded[p])
            /\ r \in DOMAIN loaded[p] => store[MetaKey(p)][r] = loaded[p][r]
            /\ decided[p][r] = <<NextDecision(p, r)>>
            /\ NextDecision(p, r) \in {"Upload", "Download"}

\* C9 witness: a pass ended by the failed upload of a path that had an entry,
\* after the upload of another path had succeeded
C9_Witness ==
    \E p \in Procs : \E r \in Paths : \E u \in Paths :
        /\ pc[p] = "finally" /\ calls[p][r] = <<"fail">>
        /\ decided[p][r] = <<"Upload">> /\ r \in DOMAIN loaded[p]
        /\ calls[p][u] = <<"upload">>

\* C10: two invocations contend exactly when they target the same bucket and
\* prefix: invocations of one (bucket, prefix) never hold the lock together,
\* and acquire() returns false only to an invocation whose target is the
\* target of the other one
C10_ContendIffSameTarget ==
    \A p \in Procs : \A q \in Other(p) :
        /\ (bucket[p] = bucket[q] /\ prefix[p] = prefix[q])
              => ~(p \in lockHeld /\ q \in lockHeld)
        /\ result[p] = "busy" => Target(p) = Target(q)

\* the operation the observer is to hear for a decision
OpsOf(d) ==
    IF d = "Skip" THEN {"skip"}
    ELSE IF d = "Upload" THEN {"upload", "fail"} ELSE {"download", "fail"}

\* C11: the observer is called exactly once for every decision outcome, with
\* 'upload', 'download', 'skip' or 'fail' as the outcome is, so that a
\* completed pass has made as many callbacks as the union has paths
C11_OneCallbackPerOutcome ==
    \A p \in Procs :
        /\ \A r \in Paths :
              decided[p][r] # <<>> =>
                  /\ Len(calls[p][r]) = 1
                  /\ calls[p][r][1] \in OpsOf(decided[p][r][1])
        /\ (pc[p] = "finally" /\ ~exc[p]) =>
              Cardinality({r \in Paths : Len(calls[p][r]) = 1}) = Cardinality(Union(p))

\* C12 (part): the step of a release() that closes the handle of p takes p,
\* and nobody else, out of the holders of the lock
ReleaseTakesOnlyCaller ==
    \A p \in Procs :
        (handle[p] /\ ~handle'[p]) => lockHeld' = lockHeld \ {p}

\* C12 (part): a process without an open handle holds no lock; release() can
\* be called in every state outside a pass, and where no handle is open
\* (no acquire yet, or released before) it changes nothing
ReleaseAlwaysSafe ==
    \A p \in Procs :
        /\ ~handle[p] => p \notin lockHeld
        /\ pc[p] = "idle" => ENABLED ReleaseCall(p)
        /\ (pc[p] = "idle" /\ ~handle[p]) => ~ENABLED (ReleaseCall(p) /\ vars' # vars)

\* C12: release() is idempotent and always safe: after a successful acquire,
\* a failed acquire, an earlier release or no acquire at all it raises nothing
\* and leaves the lock not held by the caller, and the release() of a process
\* whose acquire() failed leaves the lock with its holder
C12_ReleaseIdempotent == [](ReleaseAlwaysSafe) /\ [][ReleaseTakesOnlyCaller]_vars

\* C12 witness: p, whose acquire() had returned false, has called release()
\* while the other process is inside its pass and still holds the lock
C12_Witness ==
    \E p \in Procs : \E q \in Other(p) :
        /\ result[p] = "busy" /\ pc[p] = "idle" /\ ~handle[p]
        /\ q \in lockHeld /\ pc[q] \in InTry

\* C13 (part): no step removes a metadata entry, a local file or a remote
\* object
NothingDeleted ==
    /\ \A k \in DOMAIN store : DOMAIN store[k] \subseteq DOMAIN store'[k]
    /\ \A p \in Procs : DOMAIN local[p] \subseteq DOMAIN local'[p]
    /\ blobs \subseteq blobs'

\* C13 (part): the metadata a pass holds keeps every loaded key; an entry
\* whose local file is absent is decided Download, by the pass that runs and
\* by a pass that starts now, and a completed pass has decided it
AbsentFileDownloads ==
    \A p \in Procs :
        /\ DOMAIN loaded[p] \subseteq DOMAIN metadata[p]
        /\ \A r \in DOMAIN loaded[p] \ DOMAIN local_files[p] :
              /\ pc[p] \in {"loop1", "loop2", "save", "finally"} =>
                    decided[p][r] \in {<<>>, <<"Download">>}
              /\ (pc[p] = "finally" /\ ~exc[p]) => decided[p][r] = <<"Download">>
        /\ \A r \in DOMAIN store[MetaKey(p)] \ DOMAIN local[p] :
              NextDecision(p, r) = "Download"

ExtensionOf(f) ==
    LET dots == {i \in 1..Len(f) : f[i] = "."}
    IN  IF dots = {} THEN <<>>
        ELSE LET d == CHOOSE i \in dots : \A j \in dots : j <= i
             IN  IF \E j \in 1..(d - 1) : f[j] # "." THEN SubSeq(f, d, Len(f)) ELSE <<>>

\* the files the claim admits for process p
Admits(p, r) ==
    IF extensions[p] = {} THEN TRUE
    ELSE IF blacklist[p] THEN Lower(ExtensionOf(name[r])) \notin extensions[p]
    ELSE Lower(ExtensionOf(name[r])) \in extensions[p]

\* lf is the enumeration of the directory of p: one entry, with the file's
\* mtime, for every admitted file and none for another
EnumerationOf(p, lf) ==
    /\ DOMAIN lf = {r \in DOMAIN local[p] : Admits(p, r)}
    /\ \A r \in DOMAIN lf : lf[r] = local[p][r]

\* C14: with an empty extension set every file is admitted; with a non-empty
\* set a file is admitted in whitelist mode exactly when its lower-cased
\* extension is in the set and in blacklist mode exactly when it is not;
\* get_local_files returns one entry per admitted file, none for a rejected one
C14_ExtensionFilter ==
    \A p \in Procs :
        /\ pc[p] \in {"loop1", "loop2", "save"} => EnumerationOf(p, local_files[p])
        /\ stats[p].taken => EnumerationOf(p, stats[p].files)

\* C14 witness: with the whitelist {".t"} sync() has enumerated the file
\* "n.T" and left out the dot file ".t" that lies beside it
C14_Witness ==
    \E p \in Procs :
        /\ pc[p] = "loop1" /\ ~blacklist[p] /\ extensions[p] = {<<".", "t">>}
        /\ name["x"] = <<"n", ".", "T">>
        /\ DOMAIN local[p] = Paths /\ DOMAIN local_files[p] = {"x"}

\* C15 (part): a process that has loaded the metadata and not yet saved it
\* holds the lock, is alone in its pass among the processes of its metadata
\* object, and the object is still as it loaded it
LoadToSaveAtomic ==
    \A p \in Procs :
        pc[p] \in {"enum", "loop1", "loop2", "save"} =>
            /\ p \in lockHeld
            /\ store[MetaKey(p)] = loaded[p]
            /\ \A q \in Other(p) :
                  MetaKey(q) = MetaKey(p) => pc[q] \notin InTry \cup {"finally"}

\* C15 (part): the metadata object changes only by the save of a process
\* that holds the lock, and the saved mapping keeps every entry the object
\* had, as it was or with a newer value written by this pass
NoLostUpdate ==
    \A k \in DOMAIN store :
        store'[k] # store[k] =>
            \E p \in lockHeld :
                /\ MetaKey(p) = k /\ pc[p] = "save" /\ pc'[p] = "finally"
                /\ store'[k] = metadata[p]
                /\ \A r \in DOMAIN store[k] :
                      /\ r \in DOMAIN store'[k]
                      /\ store'[k][r] # store[k][r] => decided[p][r] = <<"Upload">>

SavedAsClaimed(p) ==
    [r \in DOMAIN loaded[p] \cup {u \in Paths : decided[p][u] = <<"Upload">>} |->
        IF decided[p][r] = <<"Upload">> THEN local_files[p][r] ELSE loaded[p][r]]

\* C16: the metadata saved by a completed pass is the loaded metadata except
\* that the entry of every uploaded path is the local mtime taken at
\* enumeration; entries of downloaded and skipped paths are unchanged
C16_MetadataEffect ==
    \A p \in Procs :
        (pc[p] = "finally" /\ ~exc[p]) => store[MetaKey(p)] = SavedAsClaimed(p)

\* C16 witness: a completed pass that skipped nothing it could transfer: it
\* uploaded a file without entry and downloaded an entry without file, the
\* download stamping the new file with a time other than the entry's
C16_Witness ==
    \E p \in Procs : \E u \in Paths : \E r \in Paths :
        /\ pc[p] = "finally" /\ ~exc[p]
        /\ decided[p][u] = <<"Upload">> /\ u \notin DOMAIN loaded[p]
        /\ decided[p][r] = <<"Download">> /\ r \notin DOMAIN local_files[p]
        /\ local[p][r] # loaded[p][r]
        /\ store[MetaKey(p)] = [k \in Paths |-> IF k = u THEN local_files[p][u] ELSE loaded[p][r]]

PendingDecisionsFixed ==
    \A p \in Procs : \A r \in todo[p] :
        /\ pc[p] = "loop1" =>
              LocalDecision(local_files[p], metadata[p], r) = Expected(local_files[p], loaded[p], r)
        /\ pc[p] = "loop2" => Expected(local_files[p], loaded[p], r) = "Download"

\* C17 (part): within a pass the snapshot and the record of the loaded
\* metadata are taken once: no step of the loops changes them
SnapshotTakenOnce ==
    \A p \in Procs :
        (pc[p] \in {"loop1", "loop2", "save"} /\ pc'[p] # "idle") =>
            /\ local_files'[p] = local_files[p]
            /\ loaded'[p] = loaded[p]

C18_EntriesWereUploaded ==
    \A p \in Procs : \A r \in DOMAIN store[MetaKey(p)] :
        /\ Blob(p, r) \in blobs
        /\ \E q \in Procs : r \in DOMAIN local[q]

\* C18 witness: a pass was aborted by a failed upload after the upload of
\* another path had succeeded, and the persisted metadata holds an entry
\* from an earlier pass only
C18_Witness ==
    \E p \in Procs : \E r \in Paths : \E u \in Paths :
        /\ pc[p] = "finally" /\ exc[p] /\ passes = 2
        /\ calls[p][u] = <<"upload">> /\ calls[p][r] = <<"fail">>
        /\ store[MetaKey(p)] # EmptyDict
        /\ \A k \in DOMAIN store[MetaKey(p)] : Blob(p, k) \in blobs

\* C19: a pass ended by a failed transfer persists nothing: the metadata
\* object after the pass is the one loaded, the entries of the uploads that
\* succeeded earlier in the pass are discarded, and with the local files
\* unchanged a pass that starts now uploads those paths again
C19_AbortedPassPersistsNothing ==
    \A p \in Procs :
        (pc[p] = "finally" /\ Failed(p) # {}) =>
            /\ exc[p]
            /\ store[MetaKey(p)] = loaded[p]
            /\ \A u \in Paths :
                  calls[p][u] = <<"upload">> =>
                      /\ metadata[p][u] = local_files[p][u]
                      /\ (u \in DOMAIN loaded[p] => loaded[p][u] < local_files[p][u])
                      /\ (local[p] = local_files[p] => NextDecision(p, u) = "Upload")

\* C19 witness: a pass ended by a failed download after the upload of another
\* path had succeeded; the local files are as enumerated
C19_Witness ==
    \E p \in Procs : \E r \in Paths : \E u \in Paths :
        /\ pc[p] = "finally" /\ exc[p]
        /\ calls[p][u] = <<"upload">>
        /\ decided[p][r] = <<"Download">> /\ calls[p][r] = <<"fail">>
        /\ local[p] = local_files[p]
        /\ store[MetaKey(p)] = loaded[p] /\ metadata[p] # loaded[p]

\* the transfers the pass of p has attempted: one per path the observer heard of
Attempts(p) == Cardinality({r \in Paths : calls[p][r] # <<>>})

\* C20 (part): when a pass is over that ran on the input get_sync_stats()
\* saw, to_upload + to_download is the number of transfers the pass
\* attempted and total_files the size of the union
StatsSumIsTransfers ==
    \A p \in Procs :
        (/\ pc[p] = "finally" /\ (~exc[p] \/ Failed(p) # {}) /\ stats[p].taken
         /\ stats[p].files = local_files[p] /\ stats[p].meta = loaded[p]) =>
            /\ stats[p].out.up + stats[p].out.down = Attempts(p)
            /\ stats[p].out.total = Cardinality(Union(p))

\* C20 (part): main() takes its 'no files to sync' branch only when a pass
\* on what get_sync_stats() saw decides no transfer
SkipsOnlyIdleSync ==
    \A p \in Procs :
        (pc[p] = "scanned" /\ pc'[p] = "idle" /\ passes' = passes) =>
            \A r \in Paths :
                Expected(stats[p].files, stats[p].meta, r) \in {"Skip", "None"}

\* C20: for every input, to_upload + to_download of get_sync_stats() is the
\* number of transfers sync() attempts on that input and total_files the
\* size of the union, so main() skips sync() only when it would transfer
\* nothing
C20_StatsSumMatchesSync == [](StatsSumIsTransfers) /\ [][SkipsOnlyIdleSync]_vars

\* the directory of p and the persisted metadata agree: the same paths, each
\* file with the known mtime of its entry
Synced(p) ==
    /\ DOMAIN local[p] = DOMAIN store[MetaKey(p)]
    /\ \A r \in DOMAIN local[p] : local[p][r] = store[MetaKey(p)][r]

\* the running pass of p is all-Skip so far: no decision but Skip taken, and
\* none but Skip about to be taken
AllSkip(p) ==
    /\ \A r \in Paths : decided[p][r] \in {<<>>, <<"Skip">>}
    /\ pc[p] # "loop2"
    /\ pc[p] = "loop1" =>
          \A r \in todo[p] : LocalDecision(local_files[p], metadata[p], r) = "Skip"

\* C21 (part): every pass runs to its end; the third pass, and every later
\* one, is all-Skip; a pass that starts with directory and metadata in
\* agreement is all-Skip, and an all-Skip pass ends with them in agreement
ThirdPassAllSkip ==
    \A p \in CliProcs :
        /\ pc[p] # "idle" => ENABLED ConvNext
        /\ passes >= 3 => AllSkip(p)
        /\ (pc[p] \in {"enum", "loop1", "loop2", "save"} /\ Synced(p)) => AllSkip(p)
        /\ (pc[p] \in {"save", "finally"} /\ AllSkip(p)) => Synced(p)

\* C21 (part): no step ends the agreement of directory and metadata, so the
\* pass after an all-Skip pass starts as that one did
AgreementStays == \A p \in CliProcs : Synced(p) => Synced(p)'

\* C21: a single client whose transfers do not fail and whose downloads stamp
\* the file later than every known mtime reaches an all-Skip pass by the third
\* pass at the latest, and every pass after an all-Skip pass is all-Skip
C21_SingleClientConverges == [](ThirdPassAllSkip) /\ [][AgreementStays]_vars

\* C21 witness: the third pass ended all-Skip over a file that the first
\* pass downloaded, stamped later than its entry, and the second pass uploaded
C21_Witness ==
    \E p \in CliProcs : \E r \in Paths :
        /\ passes = 3 /\ pc[p] = "finally" /\ ~exc[p]
        /\ decided[p][r] = <<"Skip">>
        /\ local[p][r] = MaxMtime + 1 /\ store[MetaKey(p)][r] = MaxMtime + 1

====
